---- MODULE Spec2Model ----
(***************************************************************************)
(* A model of queue.c: a singly linked queue of C strings with head and    *)
(* tail insertion, head removal, size query, in-place reversal and a merge *)
(* sort over the chain.  The heap is explicit: nodes are numbered blocks,  *)
(* 0 is the NULL pointer, a C string is the sequence of its bytes with the *)
(* terminating 0 included, and the empty tuple stands for a NULL char*.    *)
(***************************************************************************)
EXTENDS Integers, Sequences, FiniteSets

\* ------------------------------------------------------------------ bounds

\* How many list_ele_t blocks malloc hands out in one run.
MaxNodes == 3

\* The largest bufsize a caller passes to q_remove_head.
MaxBuf == 3

\* The longest queue q_sort is handed when queues are drawn whole.
MaxChain == 5

\* ---------------------------------------------------------------- C values

NULL == 0

\* The list_ele_t blocks a run can hold.
Nodes == 1..(IF MaxChain > MaxNodes THEN MaxChain ELSE MaxNodes)

\* A NULL char*.
NullStr == <<>>

\* "" with its terminator.
EmptyStr == <<0>>

\* "a", "A" and "Ab": two strings that differ only in case, and one that sorts
\* after them ignoring case and before "a" by its bytes.
Payloads == { <<97, 0>>, <<65, 0>>, <<65, 98, 0>> }

\* What a caller may pass as s.
StrArgs == Payloads \cup {NullStr, EmptyStr}

\* The byte an untouched caller buffer holds (not a char value).
Junk == -1

\* The width of size_t the model computes with (narrower than the build's,
\* wider than every size a run uses).
SIZE_WIDTH == 16

\* bufsize values passed together with a non-NULL sp.
Capacities == 1..MaxBuf

Min(a, b) == IF a <= b THEN a ELSE b

\* strlen(s): the number of bytes before the first 0.
RECURSIVE strlen_from(_, _)
strlen_from(s, i) ==
    IF i > Len(s) \/ s[i] = 0 THEN i - 1 ELSE strlen_from(s, i + 1)

strlen(s) == strlen_from(s, 1)

\* memcpy(dst, src, n) into a fresh block: the first n bytes of src.
memcpy(src, n) == SubSeq(src, 1, n)

\* strncpy(dst, src, n): the bytes of src up to its terminator, then 0s, n
\* bytes in all; the bytes of dst from n on are left alone.
strncpy(dst, src, n) ==
    [i \in 1..Len(dst) |->
        IF i <= n THEN (IF i <= strlen(src) THEN src[i] ELSE 0) ELSE dst[i]]

tolower(c) == IF c >= 65 /\ c <= 90 THEN c + 32 ELSE c

\* strcasecmp(a, b): the difference of the first bytes that differ once
\* lowered, 0 when both strings end together.
RECURSIVE strcasecmp_from(_, _, _)
strcasecmp_from(a, b, i) ==
    LET ca == tolower(a[i])
        cb == tolower(b[i])
    IN  IF ca # cb THEN ca - cb
        ELSE IF ca = 0 THEN 0
        ELSE strcasecmp_from(a, b, i + 1)

strcasecmp(a, b) == strcasecmp_from(a, b, 1)

\* ------------------------------------------------------------------- state

VARIABLES
    qp,      \* the caller's queue_t*: "null", "live" or "freed"
    head,    \* q->head
    tail,    \* q->tail
    size,    \* q->size
    next,    \* node -> its next field
    value,   \* node -> the bytes of its value block (NullStr: none)
    live,    \* the list_ele_t blocks allocated and not freed
    slive,   \* the nodes whose value block is allocated and not freed
    nalloc,  \* list_ele_t blocks handed out so far
    nfree,   \* node -> how many times free() was called on its block
    sfree,   \* node -> how many times free() was called on its value block
    nIns,    \* insertions that returned true
    nRem,    \* removals that returned true
    abs,     \* the strings an abstract sequence holds after the same calls
    last,    \* the last call: its arguments, result and the memory before it
    run      \* a q_sort taken step by step: where it is, and its call stack

vars == <<qp, head, tail, size, next, value, live, slive, nalloc, nfree,
          sfree, nIns, nRem, abs, last, run>>

\* The memory as one record, as the operators below pass it around.  flog is
\* the blocks handed to free() since the call began, in order.
Mem ==
    [qp |-> qp, head |-> head, tail |-> tail, size |-> size, next |-> next,
     value |-> value, live |-> live, slive |-> slive, nalloc |-> nalloc,
     nfree |-> nfree, sfree |-> sfree, flog |-> <<>>]

Store(m) ==
    /\ qp' = m.qp
    /\ head' = m.head
    /\ tail' = m.tail
    /\ size' = m.size
    /\ next' = m.next
    /\ value' = m.value
    /\ live' = m.live
    /\ slive' = m.slive
    /\ nalloc' = m.nalloc
    /\ nfree' = m.nfree
    /\ sfree' = m.sfree

\* The nodes met following next from h, at most fuel of them.
RECURSIVE Chain(_, _, _)
Chain(nx, h, fuel) ==
    IF h = NULL \/ fuel = 0 THEN <<>>
    ELSE <<h>> \o Chain(nx, nx[h], fuel - 1)

\* The nodes of the queue from its head; one more than there are nodes when
\* the links loop.
Traversal(m) == Chain(m.next, m.head, Cardinality(Nodes) + 1)

\* The strings of the queue from its head.
ValuesOf(m) == [i \in 1..Len(Traversal(m)) |-> m.value[Traversal(m)[i]]]

\* ------------------------------------------------------------------- heap

\* free(node): the block is no longer live, and its bytes are no longer the
\* program's (the model blanks them).
free_node(m, n) ==
    [m EXCEPT !.live = @ \ {n}, !.nfree[n] = @ + 1, !.next[n] = NULL,
              !.flog = Append(@, <<"node", n>>)]

\* free(node->value).
free_value(m, n) ==
    [m EXCEPT !.slive = @ \ {n}, !.sfree[n] = @ + 1, !.value[n] = NullStr,
              !.flog = Append(@, <<"value", n>>)]

\* free(q).
free_queue(m) ==
    [m EXCEPT !.qp = "freed", !.flog = Append(@, <<"queue", NULL>>)]

\* q_new: the queue_t is allocated and zeroed, or NULL is returned.
q_new(ok) ==
    [qp |-> IF ok THEN "live" ELSE "null",
     head |-> NULL, tail |-> NULL, size |-> 0,
     next |-> [n \in Nodes |-> NULL],
     value |-> [n \in Nodes |-> NullStr],
     live |-> {}, slive |-> {}, nalloc |-> 0,
     nfree |-> [n \in Nodes |-> 0],
     sfree |-> [n \in Nodes |-> 0],
     flog |-> <<>>]

\* q_allocate_node with the node kept when its value cannot be allocated.
q_allocate_node_leak(m, s, nodeOK, valOK) ==
    IF s = NullStr \/ strlen(s) = 0 \/ ~nodeOK THEN [node |-> NULL, mem |-> m]
    ELSE LET node == m.nalloc + 1
             m1 == [m EXCEPT !.nalloc = node, !.live = @ \cup {node},
                             !.next[node] = NULL]
         IN  IF ~valOK THEN [node |-> NULL, mem |-> m1]
             ELSE [node |-> node,
                   mem |-> [m1 EXCEPT !.slive = @ \cup {node},
                                      !.value[node] = memcpy(s, strlen(s) + 1)]]

\* q_allocate_node(s): [node, mem].  nodeOK and valOK are the outcomes of the
\* two malloc calls.
q_allocate_node(m, s, nodeOK, valOK) ==
    IF s = NullStr THEN [node |-> NULL, mem |-> m]
    ELSE LET s_len == strlen(s) + 1 IN
         IF s_len = 1 THEN [node |-> NULL, mem |-> m]
         ELSE IF ~nodeOK THEN [node |-> NULL, mem |-> m]
         ELSE LET node == m.nalloc + 1
                  m1 == [m EXCEPT !.nalloc = node, !.live = @ \cup {node},
                                  !.next[node] = NULL]
              IN  IF ~valOK THEN [node |-> NULL, mem |-> free_node(m1, node)]
                  ELSE [node |-> node,
                        mem |-> [m1 EXCEPT !.slive = @ \cup {node},
                                           !.value[node] = memcpy(s, s_len)]]

\* ------------------------------------------------------------- operations

\* link_at_head with the tail of an empty queue left NULL.
link_at_head_no_tail(m, node) ==
    [m EXCEPT !.next[node] = m.head, !.head = node, !.size = @ + 1]

\* q_insert_head once the node is there: the node goes before the head.
link_at_head(m, node) ==
    LET m1 == [m EXCEPT !.next[node] = m.head, !.head = node]
        m2 == IF m1.tail = NULL THEN [m1 EXCEPT !.tail = node] ELSE m1
    IN  [m2 EXCEPT !.size = @ + 1]

\* q_insert_head(q, s): [ret, mem].
q_insert_head(m, s, nodeOK, valOK) ==
    IF m.qp = "null" THEN [ret |-> FALSE, mem |-> m]
    ELSE LET a == q_allocate_node(m, s, nodeOK, valOK) IN
         IF a.node = NULL THEN [ret |-> FALSE, mem |-> a.mem]
         ELSE [ret |-> TRUE, mem |-> link_at_head(a.mem, a.node)]

\* link_at_tail with the count left as it was.
link_at_tail_no_count(m, node) ==
    LET m1 == IF m.head = NULL THEN [m EXCEPT !.head = node] ELSE m
        m2 == IF m1.tail # NULL
              THEN [m1 EXCEPT !.next[m1.tail] = node] ELSE m1
    IN  [m2 EXCEPT !.tail = node]

\* q_insert_tail once the node is there: the node goes after the tail.
link_at_tail(m, node) ==
    LET m1 == IF m.head = NULL THEN [m EXCEPT !.head = node] ELSE m
        m2 == IF m1.tail # NULL
              THEN [m1 EXCEPT !.next[m1.tail] = node] ELSE m1
    IN  [m2 EXCEPT !.tail = node, !.size = @ + 1]

\* q_insert_tail that puts the node in front.
q_insert_tail_in_front(m, s, nodeOK, valOK) ==
    q_insert_head(m, s, nodeOK, valOK)

\* q_insert_tail(q, s): [ret, mem].
q_insert_tail(m, s, nodeOK, valOK) ==
    IF m.qp = "null" THEN [ret |-> FALSE, mem |-> m]
    ELSE LET a == q_allocate_node(m, s, nodeOK, valOK) IN
         IF a.node = NULL THEN [ret |-> FALSE, mem |-> a.mem]
         ELSE [ret |-> TRUE, mem |-> link_at_tail(a.mem, a.node)]

\* bufsize - 1 as the size_t it is.
size_minus_1(bufsize) == (bufsize + 2 ^ SIZE_WIDTH - 1) % (2 ^ SIZE_WIDTH)

\* unlink_head with the tail left on the removed node.
unlink_head_keep_tail(m) == [m EXCEPT !.head = m.next[m.head]]

\* q_remove_head: the head node leaves the chain.
unlink_head(m) ==
    LET h == m.head
        m1 == [m EXCEPT !.head = m.next[h]]
    IN  IF m1.tail = h THEN [m1 EXCEPT !.tail = NULL] ELSE m1

\* copy_out without the terminator written after the copy.
copy_out_no_terminator(buf, val, bufsize) ==
    strncpy(buf, val, size_minus_1(bufsize))

\* q_remove_head: the bytes of buf after strncpy(sp, val, bufsize - 1) and
\* sp[bufsize - 1] = 0, for those of the two writes that fall inside buf.
copy_out(buf, val, bufsize) ==
    LET n == size_minus_1(bufsize)
        b == strncpy(buf, val, n)
    IN  IF n + 1 <= Len(b) THEN [b EXCEPT ![n + 1] = 0] ELSE b

\* release_head with the count left as it was.
release_head_no_count(m, h) == free_node(free_value(m, h), h)

\* q_remove_head: the node h and its value are freed and the count drops.
release_head(m, h) ==
    [free_node(free_value(m, h), h) EXCEPT !.size = @ - 1]

\* q_remove_head with the buffer emptied before the queue is looked at.
q_remove_head_clear_first(m, hasSp, buf, bufsize) ==
    IF m.qp = "null" \/ m.head = NULL
    THEN [ret |-> FALSE, mem |-> m,
          buf |-> IF hasSp /\ Len(buf) >= 1 THEN [buf EXCEPT ![1] = 0]
                  ELSE buf,
          oob |-> FALSE]
    ELSE [ret |-> TRUE,
          mem |-> release_head(unlink_head(m), m.head),
          buf |-> IF hasSp THEN copy_out(buf, m.value[m.head], bufsize)
                  ELSE buf,
          oob |-> hasSp /\ size_minus_1(bufsize) + 1 > Len(buf)]

\* q_remove_head(q, sp, bufsize): [ret, mem, buf, oob].  hasSp says whether sp
\* is non-NULL and buf is the memory sp points to; oob says whether a byte
\* was written outside it.
q_remove_head(m, hasSp, buf, bufsize) ==
    IF m.qp = "null" \/ m.head = NULL
    THEN [ret |-> FALSE, mem |-> m, buf |-> buf, oob |-> FALSE]
    ELSE [ret |-> TRUE,
          mem |-> release_head(unlink_head(m), m.head),
          buf |-> IF hasSp THEN copy_out(buf, m.value[m.head], bufsize)
                  ELSE buf,
          oob |-> hasSp /\ size_minus_1(bufsize) + 1 > Len(buf)]

\* q_size that answers -1 when there is no queue.
q_size_minus_one(m) == IF m.qp = "null" THEN -1 ELSE m.size

\* q_size(q).
q_size(m) == IF m.qp = "null" THEN 0 ELSE m.size

\* reverse_loop with the links left as they were.
RECURSIVE reverse_loop_no_relink(_, _, _)
reverse_loop_no_relink(nx, prev, cur) ==
    IF cur = NULL THEN [next |-> nx, prev |-> prev]
    ELSE reverse_loop_no_relink(nx, cur, nx[cur])

\* The while loop of q_reverse: [next, prev] once cur is NULL.
RECURSIVE reverse_loop(_, _, _)
reverse_loop(nx, prev, cur) ==
    IF cur = NULL THEN [next |-> nx, prev |-> prev]
    ELSE reverse_loop([nx EXCEPT ![cur] = prev], cur, nx[cur])

\* q_reverse that leaves the links and moves the values between the nodes.
q_reverse_swap_values(m) ==
    IF m.qp = "null" \/ m.head = NULL THEN m
    ELSE LET T == Traversal(m)
             place(n) == CHOOSE i \in 1..Len(T) : T[i] = n
         IN  [m EXCEPT !.value =
                 [n \in Nodes |->
                     IF \E i \in 1..Len(T) : T[i] = n
                     THEN m.value[T[Len(T) + 1 - place(n)]]
                     ELSE m.value[n]]]

\* q_reverse with the tail left where it was.
q_reverse_keep_tail(m) ==
    IF m.qp = "null" \/ m.head = NULL THEN m
    ELSE LET r == reverse_loop(m.next, NULL, m.head)
         IN  [m EXCEPT !.next = r.next, !.head = r.prev]

\* q_reverse(q): the memory after the call.
q_reverse(m) ==
    IF m.qp = "null" \/ m.head = NULL THEN m
    ELSE LET r == reverse_loop(m.next, NULL, m.head)
         IN  [m EXCEPT !.tail = m.head, !.next = r.next, !.head = r.prev]

\* merge_loop with a tie taking the node of the right list.
RECURSIVE merge_loop_ties_right(_, _, _, _, _)
merge_loop_ties_right(nx, val, cur, left, right) ==
    IF left # NULL /\ right # NULL
    THEN IF strcasecmp(val[left], val[right]) < 0
         THEN merge_loop_ties_right([nx EXCEPT ![cur] = left], val, left,
                                    nx[left], right)
         ELSE merge_loop_ties_right([nx EXCEPT ![cur] = right], val, right,
                                    left, nx[right])
    ELSE IF left # NULL THEN [nx EXCEPT ![cur] = left]
    ELSE IF right # NULL THEN [nx EXCEPT ![cur] = right]
    ELSE nx

\* merge_loop with the rest of the right list not attached.
RECURSIVE merge_loop_drop_right(_, _, _, _, _)
merge_loop_drop_right(nx, val, cur, left, right) ==
    IF left # NULL /\ right # NULL
    THEN IF strcasecmp(val[left], val[right]) < 1
         THEN merge_loop_drop_right([nx EXCEPT ![cur] = left], val, left,
                                    nx[left], right)
         ELSE merge_loop_drop_right([nx EXCEPT ![cur] = right], val, right,
                                    left, nx[right])
    ELSE IF left # NULL THEN [nx EXCEPT ![cur] = left]
    ELSE nx

\* The initial choice and the while loop of merge, with cur the last node
\* of the result so far: the next fields once a side runs out.
RECURSIVE merge_loop(_, _, _, _, _)
merge_loop(nx, val, cur, left, right) ==
    IF left # NULL /\ right # NULL
    THEN IF strcasecmp(val[left], val[right]) < 1
         THEN merge_loop([nx EXCEPT ![cur] = left], val, left, nx[left], right)
         ELSE merge_loop([nx EXCEPT ![cur] = right], val, right, left, nx[right])
    ELSE IF left # NULL THEN [nx EXCEPT ![cur] = left]
    ELSE IF right # NULL THEN [nx EXCEPT ![cur] = right]
    ELSE nx

\* merge with a tie of the two first nodes taking the right one.
merge_ties_right(nx, val, left, right) ==
    IF left = NULL THEN [next |-> nx, head |-> right]
    ELSE IF right = NULL THEN [next |-> nx, head |-> left]
    ELSE IF strcasecmp(val[left], val[right]) < 0
         THEN [next |-> merge_loop(nx, val, left, nx[left], right),
               head |-> left]
         ELSE [next |-> merge_loop(nx, val, right, left, nx[right]),
               head |-> right]

\* merge(left, right): [next, head].
merge(nx, val, left, right) ==
    IF left = NULL THEN [next |-> nx, head |-> right]
    ELSE IF right = NULL THEN [next |-> nx, head |-> left]
    ELSE IF strcasecmp(val[left], val[right]) < 1
         THEN [next |-> merge_loop(nx, val, left, nx[left], right),
               head |-> left]
         ELSE [next |-> merge_loop(nx, val, right, left, nx[right]),
               head |-> right]

\* The fast/slow walk of merge_sort: slow once fast or fast->next is NULL.
RECURSIVE split_slow(_, _, _)
split_slow(nx, fast, slow) ==
    IF fast # NULL /\ nx[fast] # NULL
    THEN split_slow(nx, nx[nx[fast]], nx[slow])
    ELSE slow

\* merge_sort(head): [next, head].
RECURSIVE merge_sort(_, _, _)
merge_sort(nx, val, h) ==
    IF h = NULL \/ nx[h] = NULL THEN [next |-> nx, head |-> h]
    ELSE LET slow == split_slow(nx, nx[h], h)
             right == nx[slow]
             l == merge_sort([nx EXCEPT ![slow] = NULL], val, h)
             r == merge_sort(l.next, val, right)
         IN  merge(r.next, val, l.head, r.head)

\* tail_walk that stops where it starts.
tail_walk_none(nx, t) == t

\* The walk of q_sort to the last node.
RECURSIVE tail_walk(_, _)
tail_walk(nx, t) ==
    IF t # NULL /\ nx[t] # NULL THEN tail_walk(nx, nx[t]) ELSE t

\* q_sort with the tail left where it was.
q_sort_keep_tail(m) ==
    IF m.qp = "null" \/ m.head = NULL THEN m
    ELSE IF m.head = m.tail THEN m
    ELSE LET r == merge_sort(m.next, m.value, m.head)
         IN  [m EXCEPT !.head = r.head, !.next = r.next]

\* q_sort(q): the memory after the call.
q_sort(m) ==
    IF m.qp = "null" \/ m.head = NULL THEN m
    ELSE IF m.head = m.tail THEN m
    ELSE LET r == merge_sort(m.next, m.value, m.head)
         IN  [m EXCEPT !.head = r.head, !.next = r.next,
                       !.tail = tail_walk(r.next, r.head)]

\* free_loop with the value blocks kept.
RECURSIVE free_loop_keep_values(_, _)
free_loop_keep_values(m, cur) ==
    IF cur = NULL THEN m
    ELSE free_loop_keep_values(free_node(m, cur), m.next[cur])

\* The while loop of q_free.
RECURSIVE free_loop(_, _)
free_loop(m, cur) ==
    IF cur = NULL THEN m
    ELSE free_loop(free_node(free_value(m, cur), cur), m.next[cur])

\* q_free(q): the memory after the call.
q_free(m) ==
    IF m.qp = "null" THEN m
    ELSE free_queue(free_loop(m, m.head))

\* ------------------------------------------------- the abstract sequence

\* What the queue is meant to be: a sequence of strings, with the calls as
\* operations on it.

Rev(s) == [i \in 1..Len(s) |-> s[Len(s) + 1 - i]]

AbsPrepend(seq, s) == <<s>> \o seq

AbsAppend(seq, s) == Append(seq, s)

AbsDropFirst(seq) == Tail(seq)

AbsReverse(seq) == Rev(seq)

\* The letters of a C string with case folded away.
CaseKey(s) ==
    [i \in 1..strlen(s) |-> IF s[i] \in 65..90 THEN s[i] + 32 ELSE s[i]]

\* a is a prefix of b, or is smaller where they first differ.
LexLeq(a, b) ==
    \/ Len(a) <= Len(b) /\ \A i \in 1..Len(a) : a[i] = b[i]
    \/ \E k \in 1..Min(Len(a), Len(b)) :
          /\ \A i \in 1..(k - 1) : a[i] = b[i]
          /\ a[k] < b[k]

\* a is not after b in case-insensitive lexicographic order.
CaseLeq(a, b) == LexLeq(CaseKey(a), CaseKey(b))

\* a and b differ at most in the case of their letters.
CaseEq(a, b) == CaseKey(a) = CaseKey(b)

\* How many strings of seq go before its i-th one: those before it in the
\* order, and of those that compare equal to it the ones that stand before.
AbsBefore(seq, i) ==
    Cardinality({ j \in 1..Len(seq) :
                    IF CaseEq(seq[j], seq[i]) THEN j < i
                    ELSE CaseLeq(seq[j], seq[i]) })

\* The strings in ascending order, those that compare equal in the order
\* they had.
AbsSort(seq) ==
    IF seq = <<>> THEN <<>>
    ELSE [k \in 1..Len(seq) |->
            seq[CHOOSE i \in 1..Len(seq) : AbsBefore(seq, i) = k - 1]]

\* ------------------------------------------------------------ the program

\* The record of a call: op its name, prev the name and boolean result of the
\* call before it, ret its boolean result, n its size_t argument or int
\* result, s its string argument, nodeOK and valOK what its two malloc calls
\* were to answer, sp whether a buffer was passed, buf that buffer after the
\* call, oob whether a byte was written outside it, frees the blocks the
\* call handed to free(), in order, pre the memory before the call.
NoCall == [op |-> "q_new", prev |-> [op |-> "none", ret |-> FALSE],
           ret |-> FALSE, n |-> 0,
           s |-> NullStr, nodeOK |-> TRUE, valOK |-> TRUE, sp |-> FALSE,
           buf |-> <<>>, oob |-> FALSE, frees |-> <<>>, pre |-> q_new(FALSE)]

Call(op) ==
    [NoCall EXCEPT !.op = op, !.prev = [op |-> last.op, ret |-> last.ret],
                   !.pre = Mem]

\* No q_sort is under way.
Idle == [pc |-> "idle", stack |-> <<>>]

Init ==
    \E ok \in BOOLEAN :
        LET m == q_new(ok) IN
        /\ qp = m.qp
        /\ head = m.head
        /\ tail = m.tail
        /\ size = m.size
        /\ next = m.next
        /\ value = m.value
        /\ live = m.live
        /\ slive = m.slive
        /\ nalloc = m.nalloc
        /\ nfree = m.nfree
        /\ sfree = m.sfree
        /\ nIns = 0
        /\ nRem = 0
        /\ abs = <<>>
        /\ last = [NoCall EXCEPT !.ret = ok, !.pre = m]
        /\ run = Idle

\* The calls a run may still make: the queue was not freed, and malloc has
\* blocks left to hand out.
Callable == qp \in {"null", "live"}

\* The answers of malloc are drawn for the calls of malloc that are made:
\* none without a queue or for a NULL or empty string, and none for the
\* value block once the node was refused. An answer not asked for is
\* written TRUE.
Asked(s, nodeOK, valOK) ==
    /\ qp = "null" \/ s = NullStr \/ strlen(s) = 0 => nodeOK /\ valOK
    /\ ~nodeOK => valOK

InsertHead ==
    \E s \in StrArgs, nodeOK \in BOOLEAN, valOK \in BOOLEAN :
        /\ Callable
        /\ nalloc < MaxNodes
        /\ Asked(s, nodeOK, valOK)
        /\ run' = run
        /\ LET r == q_insert_head(Mem, s, nodeOK, valOK) IN
           /\ Store(r.mem)
           /\ nIns' = IF r.ret THEN nIns + 1 ELSE nIns
           /\ nRem' = nRem
           /\ abs' = IF r.ret THEN AbsPrepend(abs, s) ELSE abs
           /\ last' = [Call("q_insert_head") EXCEPT !.ret = r.ret, !.s = s,
                         !.nodeOK = nodeOK, !.valOK = valOK,
                         !.frees = r.mem.flog]

InsertTail ==
    \E s \in StrArgs, nodeOK \in BOOLEAN, valOK \in BOOLEAN :
        /\ Callable
        /\ nalloc < MaxNodes
        /\ Asked(s, nodeOK, valOK)
        /\ run' = run
        /\ LET r == q_insert_tail(Mem, s, nodeOK, valOK) IN
           /\ Store(r.mem)
           /\ nIns' = IF r.ret THEN nIns + 1 ELSE nIns
           /\ nRem' = nRem
           /\ abs' = IF r.ret THEN AbsAppend(abs, s) ELSE abs
           /\ last' = [Call("q_insert_tail") EXCEPT !.ret = r.ret, !.s = s,
                         !.nodeOK = nodeOK, !.valOK = valOK,
                         !.frees = r.mem.flog]

\* The caller's buffer before the call: bufsize bytes it has not set.
FreshBuf(bufsize) == [i \in 1..bufsize |-> Junk]

\* q_remove_head(q, NULL, 0), or q_remove_head(q, sp, bufsize) with sp a
\* buffer of bufsize >= 1 bytes.
RemoveHead ==
    \E hasSp \in BOOLEAN :
    \E bufsize \in IF hasSp THEN Capacities ELSE {0} :
        /\ Callable
        /\ run' = run
        /\ LET r == q_remove_head(Mem, hasSp, FreshBuf(bufsize), bufsize) IN
           /\ Store(r.mem)
           /\ nIns' = nIns
           /\ nRem' = IF r.ret THEN nRem + 1 ELSE nRem
           /\ abs' = IF r.ret THEN AbsDropFirst(abs) ELSE abs
           /\ last' = [Call("q_remove_head") EXCEPT !.ret = r.ret,
                         !.sp = hasSp, !.n = bufsize, !.buf = r.buf,
                         !.oob = r.oob, !.frees = r.mem.flog]

Size ==
    /\ Callable
    /\ last' = [Call("q_size") EXCEPT !.n = q_size(Mem)]
    /\ UNCHANGED <<qp, head, tail, size, next, value, live, slive, nalloc,
                   nfree, sfree, nIns, nRem, abs, run>>

Reverse ==
    /\ Callable
    /\ Store(q_reverse(Mem))
    /\ abs' = AbsReverse(abs)
    /\ last' = [Call("q_reverse") EXCEPT !.frees = q_reverse(Mem).flog]
    /\ UNCHANGED <<nIns, nRem, run>>

Sort ==
    /\ Callable
    /\ Store(q_sort(Mem))
    /\ abs' = AbsSort(abs)
    /\ last' = [Call("q_sort") EXCEPT !.frees = q_sort(Mem).flog]
    /\ UNCHANGED <<nIns, nRem, run>>

Free ==
    /\ Callable
    /\ Store(q_free(Mem))
    /\ last' = [Call("q_free") EXCEPT !.frees = q_free(Mem).flog]
    /\ UNCHANGED <<nIns, nRem, abs, run>>

Next ==
    \/ InsertHead
    \/ InsertTail
    \/ RemoveHead
    \/ Size
    \/ Reverse
    \/ Sort
    \/ Free

Spec == Init /\ [][Next]_vars

\* ------------------------------------------------- a buffer of no bytes

\* q_remove_head(q, sp, 0) with sp non-NULL: a buffer with no room, not even
\* for the terminator.  What a run does once bytes were written outside the
\* buffer is undefined: the call is recorded and the run ends there, with
\* nothing said of the memory.
RemoveHeadNoRoom ==
    /\ Callable
    /\ run' = run
    /\ LET r == q_remove_head(Mem, TRUE, FreshBuf(0), 0) IN
       /\ Store(IF r.oob THEN [Mem EXCEPT !.qp = "undefined"] ELSE r.mem)
       /\ nIns' = nIns
       /\ nRem' = IF r.ret /\ ~r.oob THEN nRem + 1 ELSE nRem
       /\ abs' = IF r.ret /\ ~r.oob THEN AbsDropFirst(abs) ELSE abs
       /\ last' = [Call("q_remove_head") EXCEPT !.ret = r.ret,
                     !.sp = TRUE, !.n = 0, !.buf = r.buf,
                     !.oob = r.oob, !.frees = r.mem.flog]

NextAnyCap ==
    \/ Next
    \/ RemoveHeadNoRoom

\* The calls of Spec, and q_remove_head with a buffer of any size from 0.
SpecAnyCap == Init /\ [][NextAnyCap]_vars

\* ------------------------------------------------- queues drawn whole

\* The memory after q_new and one successful q_insert_tail per string of seq.
RECURSIVE Built(_)
Built(seq) ==
    IF seq = <<>> THEN q_new(TRUE)
    ELSE q_insert_tail(Built(SubSeq(seq, 1, Len(seq) - 1)), seq[Len(seq)],
                       TRUE, TRUE).mem

\* The sequences of at most MaxChain payloads.
Drawn == UNION { [1..n -> Payloads] : n \in 0..MaxChain }

\* A queue of at most MaxChain strings, as the insertions left it.
InitDrawn ==
    \E seq \in Drawn :
        LET m == Built(seq) IN
        /\ qp = m.qp
        /\ head = m.head
        /\ tail = m.tail
        /\ size = m.size
        /\ next = m.next
        /\ value = m.value
        /\ live = m.live
        /\ slive = m.slive
        /\ nalloc = m.nalloc
        /\ nfree = m.nfree
        /\ sfree = m.sfree
        /\ nIns = Len(seq)
        /\ nRem = 0
        /\ abs = seq
        /\ last = [NoCall EXCEPT !.op = "drawn", !.pre = m]
        /\ run = Idle

NextSort ==
    \/ Sort
    \/ Reverse

\* q_sort and q_reverse, in any order, on a queue drawn whole.
SortSpec == InitDrawn /\ [][NextSort]_vars

\* ------------------------------------------------- q_sort, step by step

\* What q_sort and the functions under it leave alone.
Untouched == <<qp, size, value, live, slive, nalloc, nfree, sfree, nIns,
               nRem>>

\* The activation record of merge_sort(h) or of merge(l, r) at its first
\* line: fn the function, pc where it stands, and its locals.
Frame(fn, h, l, r) ==
    [fn |-> fn, pc |-> "entry", head |-> h, fast |-> NULL, slow |-> NULL,
     left |-> l, right |-> r, result |-> NULL, cur |-> NULL]

\* The record of the function now executing.
Top == run.stack[Len(run.stack)]

In(fn, pc) ==
    /\ run.pc = "sorting"
    /\ run.stack # <<>>
    /\ Top.fn = fn
    /\ Top.pc = pc

SetTop(f) == run' = [run EXCEPT !.stack[Len(run.stack)] = f]

Push(f, g) ==
    run' = [run EXCEPT !.stack = Append([@ EXCEPT ![Len(@)] = f], g)]

\* fast as merge_sort declares it, one node ahead of slow.
split_start_at_head(nx, h) == h

split_start(nx, h) == nx[h]

\* q_sort up to its call of merge_sort: the two early returns, or the call.
SortCall ==
    /\ run.pc = "idle"
    /\ Callable
    /\ last' = Call("q_sort")
    /\ abs' = AbsSort(abs)
    /\ run' = IF qp = "null" \/ head = NULL THEN [Idle EXCEPT !.pc = "done"]
              ELSE IF head = tail THEN [Idle EXCEPT !.pc = "done"]
              ELSE [pc |-> "sorting",
                    stack |-> <<Frame("merge_sort", head, NULL, NULL)>>]
    /\ UNCHANGED <<head, tail, next, Untouched>>

\* merge_sort up to its loop: a chain of fewer than two nodes is returned
\* as it is, otherwise fast and slow are set.
MergeSortEnter ==
    /\ In("merge_sort", "entry")
    /\ IF Top.head = NULL \/ next[Top.head] = NULL
       THEN SetTop([Top EXCEPT !.pc = "return", !.result = Top.head])
       ELSE SetTop([Top EXCEPT !.pc = "walk",
                               !.fast = split_start(next, Top.head),
                               !.slow = Top.head])
    /\ UNCHANGED <<head, tail, next, abs, last, Untouched>>

\* One turn of the fast/slow loop.
SplitStep ==
    /\ In("merge_sort", "walk")
    /\ Top.fast # NULL /\ next[Top.fast] # NULL
    /\ SetTop([Top EXCEPT !.fast = next[next[Top.fast]],
                          !.slow = next[Top.slow]])
    /\ UNCHANGED <<head, tail, next, abs, last, Untouched>>

\* The loop is left: the chain is severed behind slow.
SplitCut ==
    /\ In("merge_sort", "walk")
    /\ ~(Top.fast # NULL /\ next[Top.fast] # NULL)
    /\ SetTop([Top EXCEPT !.pc = "callLeft", !.left = Top.head,
                          !.right = next[Top.slow]])
    /\ next' = [next EXCEPT ![Top.slow] = NULL]
    /\ UNCHANGED <<head, tail, abs, last, Untouched>>

\* left = merge_sort(left): the call.
CallLeft ==
    /\ In("merge_sort", "callLeft")
    /\ Push([Top EXCEPT !.pc = "retLeft"],
            Frame("merge_sort", Top.left, NULL, NULL))
    /\ UNCHANGED <<head, tail, next, abs, last, Untouched>>

\* right = merge_sort(right): the call.
CallRight ==
    /\ In("merge_sort", "callRight")
    /\ Push([Top EXCEPT !.pc = "retRight"],
            Frame("merge_sort", Top.right, NULL, NULL))
    /\ UNCHANGED <<head, tail, next, abs, last, Untouched>>

\* return merge(left, right): the call.
CallMerge ==
    /\ In("merge_sort", "callMerge")
    /\ Push([Top EXCEPT !.pc = "retMerge"],
            Frame("merge", NULL, Top.left, Top.right))
    /\ UNCHANGED <<head, tail, next, abs, last, Untouched>>

\* A function returns: its result goes where its caller put the call, and
\* the result of the outermost merge_sort to q->head, q->tail starting there.
Return ==
    /\ run.pc = "sorting"
    /\ run.stack # <<>>
    /\ Top.pc = "return"
    /\ IF Len(run.stack) = 1
       THEN /\ head' = Top.result
            /\ tail' = Top.result
            /\ run' = [pc |-> "tail", stack |-> <<>>]
       ELSE LET caller == run.stack[Len(run.stack) - 1]
                back == CASE caller.pc = "retLeft" ->
                                 [caller EXCEPT !.left = Top.result,
                                                !.pc = "callRight"]
                          [] caller.pc = "retRight" ->
                                 [caller EXCEPT !.right = Top.result,
                                                !.pc = "callMerge"]
                          [] caller.pc = "retMerge" ->
                                 [caller EXCEPT !.result = Top.result,
                                                !.pc = "return"]
            IN  /\ run' = [run EXCEPT !.stack =
                              Append(SubSeq(@, 1, Len(@) - 2), back)]
                /\ UNCHANGED <<head, tail>>
    /\ UNCHANGED <<next, abs, last, Untouched>>

\* merge up to its loop: an empty side returns the other, otherwise result
\* and cur are set to the node that goes first.
MergeEnter ==
    /\ In("merge", "entry")
    /\ IF Top.left = NULL
       THEN SetTop([Top EXCEPT !.pc = "return", !.result = Top.right])
       ELSE IF Top.right = NULL
       THEN SetTop([Top EXCEPT !.pc = "return", !.result = Top.left])
       ELSE IF strcasecmp(value[Top.left], value[Top.right]) < 1
       THEN SetTop([Top EXCEPT !.pc = "loop", !.result = Top.left,
                               !.cur = Top.left, !.left = next[Top.left]])
       ELSE SetTop([Top EXCEPT !.pc = "loop", !.result = Top.right,
                               !.cur = Top.right, !.right = next[Top.right]])
    /\ UNCHANGED <<head, tail, next, abs, last, Untouched>>

\* One turn of the loop of merge.
MergeStep ==
    /\ In("merge", "loop")
    /\ Top.left # NULL /\ Top.right # NULL
    /\ IF strcasecmp(value[Top.left], value[Top.right]) < 1
       THEN /\ next' = [next EXCEPT ![Top.cur] = Top.left]
            /\ SetTop([Top EXCEPT !.left = next[Top.left],
                                  !.cur = Top.left])
       ELSE /\ next' = [next EXCEPT ![Top.cur] = Top.right]
            /\ SetTop([Top EXCEPT !.right = next[Top.right],
                                  !.cur = Top.right])
    /\ UNCHANGED <<head, tail, abs, last, Untouched>>

\* The loop of merge is left: what one side still holds goes behind cur.
MergeRest ==
    /\ In("merge", "loop")
    /\ ~(Top.left # NULL /\ Top.right # NULL)
    /\ LET nl == IF Top.left # NULL
                 THEN [next EXCEPT ![Top.cur] = Top.left] ELSE next
       IN  next' = IF Top.right # NULL
                   THEN [nl EXCEPT ![Top.cur] = Top.right] ELSE nl
    /\ SetTop([Top EXCEPT !.pc = "return"])
    /\ UNCHANGED <<head, tail, abs, last, Untouched>>

\* One turn of the loop of q_sort that moves q->tail.
TailStep ==
    /\ run.pc = "tail"
    /\ tail # NULL /\ next[tail] # NULL
    /\ tail' = next[tail]
    /\ UNCHANGED <<head, next, abs, last, run, Untouched>>

\* That loop is left, and q_sort returns.
SortReturn ==
    /\ run.pc = "tail"
    /\ ~(tail # NULL /\ next[tail] # NULL)
    /\ run' = [run EXCEPT !.pc = "done"]
    /\ UNCHANGED <<head, tail, next, abs, last, Untouched>>

NextStep ==
    \/ SortCall
    \/ MergeSortEnter
    \/ SplitStep
    \/ SplitCut
    \/ CallLeft
    \/ CallRight
    \/ CallMerge
    \/ Return
    \/ MergeEnter
    \/ MergeStep
    \/ MergeRest
    \/ TailStep
    \/ SortReturn

\* One q_sort on a queue drawn whole, a statement at a time; nothing
\* suspends it, so a step that can be taken is taken.
StepSpec == InitDrawn /\ [][NextStep]_vars /\ WF_vars(NextStep)

\* ------------------------------------------------------------- properties

NoRepeat(s) == \A i, j \in 1..Len(s) : i # j => s[i] # s[j]

Inserted == last.op \in {"q_insert_head", "q_insert_tail"}

\* C1: as long as the queue is not freed, size is 0 exactly when head is
\* NULL and exactly when tail is NULL, and a queue of size 1 has head = tail.
C1_EmptyIffNoHeadNoTail ==
    qp # "freed" =>
        /\ (size = 0) <=> (head = NULL)
        /\ (size = 0) <=> (tail = NULL)
        /\ size = 1 => head = tail

\* A removal has just emptied a queue that held one of two inserted nodes.
C1_Witness ==
    /\ last.op = "q_remove_head" /\ last.ret
    /\ last.pre.size = 1 /\ size = 0 /\ nIns >= 2

\* C2: as long as the queue is not freed, the chain from head has exactly
\* size nodes, all different and all allocated; it ends at tail, whose next
\* is NULL.
C2_SimpleChain ==
    qp # "freed" =>
        LET T == Traversal(Mem) IN
        /\ Len(T) = size
        /\ NoRepeat(T)
        /\ \A i \in 1..Len(T) : T[i] \in live
        /\ size > 0 => T[size] = tail /\ next[tail] = NULL

\* A sort has just reordered a queue of three nodes.
C2_Witness ==
    /\ last.op = "q_sort" /\ size = 3
    /\ Traversal(Mem) # Traversal(last.pre)

\* C3: q_size returns the number of insertions that returned true minus the
\* number of removals that returned true.
C3_SizeIsInsertsMinusRemovals ==
    last.op = "q_size" => last.n = nIns - nRem

\* q_size has just answered 2 after three insertions and one removal.
C3_Witness ==
    last.op = "q_size" /\ nIns = 3 /\ nRem = 1 /\ last.n = 2

\* The insertion just made had no queue, no string, an empty string, or a
\* malloc that failed.
InsertFailCase ==
    /\ Inserted
    /\ \/ last.pre.qp = "null"
       \/ last.s = NullStr
       \/ strlen(last.s) = 0
       \/ ~last.nodeOK
       \/ ~last.valOK

\* C4: such an insertion returns false, leaves head, tail, size and the
\* traversal as they were, and leaves no block allocated that was not.
C4_FailedInsertNoEffect ==
    InsertFailCase =>
        /\ ~last.ret
        /\ head = last.pre.head
        /\ tail = last.pre.tail
        /\ size = last.pre.size
        /\ Traversal(Mem) = Traversal(last.pre)
        /\ ValuesOf(Mem) = ValuesOf(last.pre)
        /\ live = last.pre.live
        /\ slive = last.pre.slive

\* An insertion into a non-empty queue got its node and not its value block.
C4_Witness ==
    /\ Inserted /\ last.s \in Payloads /\ last.nodeOK /\ ~last.valOK
    /\ last.pre.qp = "live" /\ last.pre.size >= 1
    /\ nalloc = last.pre.nalloc + 1

\* C5: an insertion that returned true put one new node holding s before
\* (q_insert_head) or after (q_insert_tail) the nodes that were there, size
\* grew by 1, and a queue that was empty has the new node as head and tail.
C5_InsertPlacesNode ==
    Inserted /\ last.ret =>
        LET T == Traversal(Mem)
            new == IF last.op = "q_insert_head" THEN head ELSE tail
        IN  /\ new \in live \ last.pre.live
            /\ value[new] = last.s
            /\ size = last.pre.size + 1
            /\ last.op = "q_insert_head" =>
                  /\ T = <<new>> \o Traversal(last.pre)
                  /\ ValuesOf(Mem) = <<last.s>> \o ValuesOf(last.pre)
            /\ last.op = "q_insert_tail" =>
                  /\ T = Traversal(last.pre) \o <<new>>
                  /\ ValuesOf(Mem) = ValuesOf(last.pre) \o <<last.s>>
            /\ last.pre.size = 0 => head = new /\ tail = new

\* An insertion at the tail of a queue of two nodes has returned true.
C5_Witness ==
    last.op = "q_insert_tail" /\ last.ret /\ last.pre.size = 2

\* C6: q_remove_head with no queue or an empty queue returns false, leaves
\* head, tail and size (0) as they were, frees nothing and writes no byte of
\* the buffer it was given.
C6_RemoveFromEmptyNoEffect ==
    last.op = "q_remove_head" /\ (last.pre.qp = "null" \/ last.pre.size = 0) =>
        /\ ~last.ret
        /\ head = last.pre.head
        /\ tail = last.pre.tail
        /\ size = last.pre.size
        /\ q_size(Mem) = 0
        /\ live = last.pre.live
        /\ slive = last.pre.slive
        /\ last.buf = FreshBuf(last.n)
        /\ ~last.oob

\* A removal with a buffer was tried on a queue that a removal had emptied.
C6_Witness ==
    /\ last.op = "q_remove_head" /\ last.sp /\ last.n >= 1
    /\ last.pre.qp = "live" /\ last.pre.size = 0 /\ nRem >= 1

\* C7: q_remove_head on a non-empty queue returns true and takes the head
\* node away: the traversal loses its first node, size drops by 1, tail
\* stays unless that node was the only one, and then head and tail are NULL.
C7_RemoveDetachesHead ==
    last.op = "q_remove_head" /\ last.pre.qp = "live" /\ last.pre.size > 0 =>
        /\ last.ret
        /\ Traversal(Mem) = Tail(Traversal(last.pre))
        /\ ValuesOf(Mem) = Tail(ValuesOf(last.pre))
        /\ size = last.pre.size - 1
        /\ last.pre.size > 1 => tail = last.pre.tail
        /\ last.pre.size = 1 => head = NULL /\ tail = NULL

\* A removal without a buffer has taken the only node of the queue.
C7_Witness ==
    /\ last.op = "q_remove_head" /\ last.ret /\ ~last.sp
    /\ last.pre.size = 1

\* C8: when q_insert_head(q, s) has returned true and the next call is
\* q_remove_head(q, sp, c) with a buffer of c >= 1 bytes, that call returns
\* true, sp holds the first min(strlen(s), c - 1) bytes of s and then a 0,
\* and the traversal, head, tail and size are those before the insertion.
C8_InsertHeadThenRemoveHead ==
    [][(/\ last.op = "q_insert_head" /\ last.ret
        /\ last'.op = "q_remove_head" /\ last'.sp)
       => LET k == Min(strlen(last.s), last'.n - 1)
              before == last.pre
          IN  /\ last'.ret
              /\ Len(last'.buf) = last'.n
              /\ SubSeq(last'.buf, 1, k) = SubSeq(last.s, 1, k)
              /\ last'.buf[k + 1] = 0
              /\ ~last'.oob
              /\ Traversal(Mem)' = Traversal(before)
              /\ ValuesOf(Mem)' = ValuesOf(before)
              /\ head' = before.head
              /\ tail' = before.tail
              /\ size' = before.size]_vars

\* Right after q_insert_head put a two-byte string before another node, a
\* removal with a buffer of two bytes returned its first byte and a 0.
C8_Witness ==
    /\ last.op = "q_remove_head" /\ last.ret /\ last.sp /\ last.n = 2
    /\ last.prev = [op |-> "q_insert_head", ret |-> TRUE]
    /\ strlen(last.pre.value[last.pre.head]) = 2
    /\ last.pre.size >= 2
    /\ last.buf = <<65, 0>>

\* C9: q_reverse on a non-empty queue leaves the same nodes in the opposite
\* order with their values untouched, size as it was, the old head as tail
\* and the old tail as head.
C9_ReverseReverses ==
    last.op = "q_reverse" /\ last.pre.qp = "live" /\ last.pre.size > 0 =>
        /\ Traversal(Mem) = Rev(Traversal(last.pre))
        /\ ValuesOf(Mem) = Rev(ValuesOf(last.pre))
        /\ value = last.pre.value
        /\ size = last.pre.size
        /\ tail = last.pre.head
        /\ head = last.pre.tail

\* q_reverse has just run on a queue of three nodes.
C9_Witness ==
    last.op = "q_reverse" /\ last.pre.size = 3 /\ size = 3

\* C10: when q_reverse has run on a non-empty queue and the next call is
\* q_reverse again, the traversal, head, tail and size are those before the
\* first of the two calls.
C10_ReverseTwiceRestores ==
    [][(/\ last.op = "q_reverse" /\ last.pre.qp = "live"
        /\ last.pre.size > 0
        /\ last'.op = "q_reverse")
       => LET before == last.pre
          IN  /\ Traversal(Mem)' = Traversal(before)
              /\ ValuesOf(Mem)' = ValuesOf(before)
              /\ head' = before.head
              /\ tail' = before.tail
              /\ size' = before.size]_vars

\* q_reverse has just run for the second time in a row on three nodes.
C10_Witness ==
    /\ last.op = "q_reverse" /\ last.prev.op = "q_reverse"
    /\ last.pre.size = 3 /\ size = 3

\* The strings of seq are in ascending case-insensitive order.
Ascending(seq) ==
    \A i \in 1..(Len(seq) - 1) : CaseLeq(seq[i], seq[i + 1])

\* How many times x occurs in seq.
Count(seq, x) == Cardinality({i \in 1..Len(seq) : seq[i] = x})

\* The place of node n in the sequence of nodes T.
PlaceOf(T, n) == CHOOSE i \in 1..Len(T) : T[i] = n

Sorted == last.op = "q_sort" /\ last.pre.qp = "live"

\* C11: after q_sort the strings from head are in ascending case-insensitive
\* order, the nodes are the nodes there were, each once and each with the
\* value it had, so every string occurs as often as before, and size is as
\* it was.
C11_SortOrdersAndKeeps ==
    Sorted =>
        LET T == Traversal(Mem)
            P == Traversal(last.pre)
        IN  /\ Ascending(ValuesOf(Mem))
            /\ Len(T) = Len(P)
            /\ NoRepeat(T)
            /\ {T[i] : i \in 1..Len(T)} = {P[i] : i \in 1..Len(P)}
            /\ value = last.pre.value
            /\ \A x \in Payloads :
                  Count(ValuesOf(Mem), x) = Count(ValuesOf(last.pre), x)
            /\ size = last.pre.size

\* q_sort has just put five nodes holding three different strings into
\* another order.
C11_Witness ==
    /\ Sorted /\ size = 5
    /\ Traversal(Mem) # Traversal(last.pre)
    /\ \A x \in Payloads : Count(ValuesOf(Mem), x) >= 1

\* C12: after q_sort two nodes whose strings differ at most in case are in
\* the order they were in before; and merge, given two one-node lists whose
\* strings differ at most in case, puts the left one first.
C12_SortStable ==
    /\ Sorted =>
          LET T == Traversal(Mem)
              P == Traversal(last.pre)
          IN  \A i, j \in 1..Len(P) :
                  i < j /\ CaseEq(value[P[i]], value[P[j]]) =>
                      PlaceOf(T, P[i]) < PlaceOf(T, P[j])
    /\ qp = "live" =>
          \A a, b \in live :
              a # b /\ CaseEq(value[a], value[b]) =>
                  LET nx == [next EXCEPT ![a] = NULL, ![b] = NULL]
                      r == merge(nx, value, a, b)
                  IN  r.head = a /\ r.next[a] = b /\ r.next[b] = NULL

\* q_sort has just moved a node past two nodes that differ only in case and
\* were "A" before "a".
C12_Witness ==
    /\ Sorted /\ size >= 3
    /\ Traversal(Mem) # Traversal(last.pre)
    /\ \E i, j \in 1..size :
          /\ i < j
          /\ ValuesOf(Mem)[i] = <<65, 0>>
          /\ ValuesOf(Mem)[j] = <<97, 0>>

\* C13: q_sort called on a queue whose strings are in ascending order, and
\* so q_sort called right after q_sort, leaves every link, head, tail and
\* size as they were.
C13_SortIdempotent ==
    [][(/\ last'.op = "q_sort"
        /\ last.op = "q_sort" \/ Ascending(ValuesOf(Mem)))
       => /\ Traversal(Mem)' = Traversal(Mem)
          /\ next' = next
          /\ head' = head
          /\ tail' = tail
          /\ size' = size]_vars

\* q_sort has just run a second time in a row on five nodes holding three
\* different strings.
C13_Witness ==
    /\ last.op = "q_sort" /\ last.prev.op = "q_sort" /\ size = 5
    /\ \A x \in Payloads : Count(ValuesOf(Mem), x) >= 1

Relinked == last.op \in {"q_reverse", "q_sort"}

\* C14: across q_reverse and q_sort no block is allocated and none is
\* freed, and every node keeps its value; nothing but next links and the
\* queue's head and tail differs from before the call.
C14_RelinkOnly ==
    Relinked =>
        /\ live = last.pre.live
        /\ slive = last.pre.slive
        /\ nalloc = last.pre.nalloc
        /\ last.frees = <<>>
        /\ nfree = last.pre.nfree
        /\ sfree = last.pre.sfree
        /\ value = last.pre.value
        /\ size = last.pre.size
        /\ qp = last.pre.qp
        /\ \A n \in Nodes \ live : next[n] = last.pre.next[n]

\* q_reverse has just changed the links of a queue of two nodes holding
\* different strings, with a third node removed before.
C14_Witness ==
    /\ last.op = "q_reverse" /\ size = 2 /\ nRem >= 1
    /\ next # last.pre.next
    /\ value[head] # value[tail]

\* C15: no block is freed twice and a block is freed exactly when it is no
\* longer allocated; q_free on a queue frees, for each node from head on,
\* its value and then the node, and the queue last, after which every node
\* ever allocated and every value block has been freed once; q_free on no
\* queue frees nothing.
C15_EveryBlockFreedOnce ==
    /\ \A n \in Nodes :
          /\ nfree[n] = (IF n <= nalloc /\ n \notin live THEN 1 ELSE 0)
          /\ sfree[n] <= 1
          /\ n \in slive => sfree[n] = 0 /\ n \in live
          /\ qp # "freed" /\ n \in live => n \in slive
    /\ last.op = "q_free" /\ last.pre.qp = "live" =>
          LET P == Traversal(last.pre) IN
          /\ qp = "freed"
          /\ live = {} /\ slive = {}
          /\ \A n \in 1..nalloc : nfree[n] = 1
          /\ \A i \in 1..Len(P) : sfree[P[i]] = 1
          /\ Len(last.frees) = 2 * Len(P) + 1
          /\ \A i \in 1..Len(P) :
                /\ last.frees[2 * i - 1] = <<"value", P[i]>>
                /\ last.frees[2 * i] = <<"node", P[i]>>
          /\ last.frees[2 * Len(P) + 1] = <<"queue", NULL>>
    /\ last.op = "q_free" /\ last.pre.qp = "null" =>
          /\ last.frees = <<>>
          /\ qp = "null"
          /\ live = {} /\ slive = {}

\* q_free has just freed a queue of two nodes, after q_remove_head had freed
\* a third.
C15_Witness ==
    /\ last.op = "q_free" /\ last.pre.size = 2
    /\ nalloc = 3 /\ nRem = 1

\* C16: q_reverse with no queue or an empty queue, and q_sort with no queue,
\* an empty queue or a queue of one node, leave head, tail, size and every
\* link as they were; q_size with no queue returns 0.
C16_InvalidCallsNoOp ==
    /\ (/\ last.op = "q_reverse"
        /\ last.pre.qp = "null" \/ last.pre.size = 0)
       \/ (/\ last.op = "q_sort"
           /\ last.pre.qp = "null" \/ last.pre.size <= 1)
       => /\ Mem = last.pre
          /\ Traversal(Mem) = Traversal(last.pre)
    /\ last.op = "q_size" /\ last.pre.qp = "null" => last.n = 0

\* q_size has just been called with no queue.
C16_Witness ==
    last.op = "q_size" /\ qp = "null" /\ last.prev.op = "q_sort"

\* C17: after q_sort on two nodes or more, tail is the last node from head
\* and its next is NULL; a q_insert_tail that returns true right after puts
\* its node after all of them, and a q_reverse right after leaves them in
\* the opposite order.
C17_TailAfterSort ==
    [][(last.op = "q_sort" /\ last.pre.qp = "live" /\ last.pre.size >= 2)
       => LET T == Traversal(Mem) IN
          /\ Len(T) = size
          /\ T[Len(T)] = tail
          /\ next[tail] = NULL
          /\ Ascending(ValuesOf(Mem))
          /\ last'.op = "q_insert_tail" /\ last'.ret =>
                /\ Traversal(Mem)' = T \o <<tail'>>
                /\ ValuesOf(Mem)' = ValuesOf(Mem) \o <<last'.s>>
          /\ last'.op = "q_reverse" =>
                /\ Traversal(Mem)' = Rev(T)
                /\ ValuesOf(Mem)' = Rev(ValuesOf(Mem))]_vars

\* q_insert_tail has just returned true right after q_sort on a queue of two
\* nodes, the one allocated second before the one allocated first.
C17_Witness ==
    /\ last.op = "q_insert_tail" /\ last.ret
    /\ last.prev.op = "q_sort" /\ last.pre.size = 2
    /\ last.pre.next[2] = 1

\* C19: q_remove_head on a non-empty queue with a buffer of c bytes, c from
\* 0 on, writes no byte outside the buffer.
C19_WritesInsideBuffer ==
    last.op = "q_remove_head" /\ last.sp /\ last.ret => ~last.oob

\* What a buffer of c >= 1 bytes holds of the string s: its bytes as far as
\* c - 1 of them fit, and 0 from there on.
Truncated(s, c) ==
    [i \in 1..c |-> IF i < c /\ i <= strlen(s) THEN s[i] ELSE 0]

\* C20: the strings from head are those of the abstract sequence, to which
\* q_insert_head prepends, q_insert_tail appends and of which q_remove_head
\* drops the first, each when it returns true; and the string q_remove_head
\* hands back is the first of the abstract sequence, cut to the buffer.
C20_RefinesSequence ==
    /\ ValuesOf(Mem) = abs
    /\ [][/\ Callable' => ValuesOf(Mem)' = abs'
          /\ Callable' => size' = Len(abs')
          /\ last'.op = "q_remove_head" /\ last'.ret /\ last'.sp =>
                last'.buf = Truncated(Head(abs), last'.n)]_vars

\* Right after q_insert_tail put a string behind another one, q_remove_head
\* has handed back "Ab", which is not the string just inserted.
C20_Witness ==
    /\ last.op = "q_remove_head" /\ last.ret /\ last.sp /\ last.n = 3
    /\ last.prev = [op |-> "q_insert_tail", ret |-> TRUE]
    /\ last.pre.size >= 2
    /\ last.buf = <<65, 98, 0>>
    /\ last.pre.value[last.pre.tail] # <<65, 98, 0>>
    /\ abs # <<>>

\* How many nodes the chain from h has.
Length(nx, h) == Len(Chain(nx, h, Cardinality(Nodes) + 1))

\* C18: q_sort returns. Where merge_sort severs a chain, both halves hold a
\* node, the left one ends at slow, and each holds fewer nodes than the
\* chain did; each turn of the loop of merge, and each turn of the loop that
\* moves q->tail, leaves one node fewer ahead. The memory at the return
\* is the one q_sort computes in one step.
C18_SortTerminates ==
    /\ [][/\ In("merge_sort", "walk") /\ In("merge_sort", "callLeft")' =>
             LET n == Length(next, Top.head)
                 l == Chain(next', Top'.left, Cardinality(Nodes) + 1)
                 r == Chain(next', Top'.right, Cardinality(Nodes) + 1)
             IN  /\ Len(l) >= 1 /\ Len(r) >= 1
                 /\ l[Len(l)] = Top.slow
                 /\ Len(l) < n /\ Len(r) < n
                 /\ Len(l) + Len(r) = n
          /\ In("merge", "loop") /\ In("merge", "loop")' =>
                Length(next', Top'.left) + Length(next', Top'.right)
                    = Length(next, Top.left) + Length(next, Top.right) - 1
          /\ run.pc = "tail" /\ run'.pc = "tail" =>
                Length(next', tail') = Length(next, tail) - 1
          /\ run'.pc = "done" => Mem' = q_sort(last'.pre)]_vars
    /\ <>(run.pc = "done")

\* q_sort has returned from a queue of five nodes that it had to reorder.
C18_Witness ==
    /\ run.pc = "done"
    /\ last.op = "q_sort"
    /\ size = 5
    /\ Traversal(Mem) # Traversal(last.pre)

====
